---- MODULE Spec2Model ----
(***************************************************************************)
(* Model of src/App.tsx: the BlueprintCursor pointer tracker (pointer      *)
(* position, hover classification, crosshair overlay, window listeners)    *)
(* and the App scroll mapper (scrollYProgress -> springScroll ->           *)
(* heroScale / heroOpacity).                                               *)
(*                                                                         *)
(* Numbers.  Scroll progress is a fixed-point number with ProgressDen      *)
(* units per 1.0 (0.15 = 3, 0.2 = 4, 1 = ProgressDen).  Scales and         *)
(* opacities are fixed-point numbers with One units per 1.0 (1.2 = 72,     *)
(* 1.5 = 90); One is chosen so that every value of the two linear maps on  *)
(* the progress grid is an integer, i.e. the arithmetic below is exact.    *)
(***************************************************************************)
EXTENDS Integers, Sequences, FiniteSets, TLC

VARIABLES
    mounted,          \* App (and the BlueprintCursor it always renders) is mounted
    listeners,        \* window listeners: event type -> number registered
    mouseX, mouseY,   \* motion values of BlueprintCursor (PointerPosition)
    hoverType,        \* useState of BlueprintCursor (HoverClass)
    hoverBefore,      \* hoverType as it was when the last mouseover was dispatched
                      \* (in this or in an earlier lifetime)
    crosshair,        \* rendered crosshair overlay: <<>> or <<[scale, rotate, label]>>
    event,            \* last pointer event the window dispatched in this lifetime
    lastMove,         \* last mousemove a handler has run for in this lifetime
    lastOver,         \* last mouseover a handler has run for in this lifetime
    scrollYProgress,  \* raw scroll progress (useScroll)
    springScroll,     \* smoothed scroll progress (useSpring)
    springActive,     \* the spring animation is running
    heroScaleValue,   \* motion value heroScale
    heroOpacityValue, \* motion value heroOpacity
    points,           \* HoudiniCloud: <<>> or <<the memoized point array>>
    rotation,         \* HoudiniCloud: ref.current.rotation, [x, y] in milliradians
    elapsed,          \* HoudiniCloud: state.clock.getElapsedTime(), in seconds
    cloudRenders      \* HoudiniCloud: renders of the mounted component

pointerVars == <<listeners, mouseX, mouseY, hoverType, hoverBefore, crosshair, event,
                 lastMove, lastOver>>
scrollVars == <<scrollYProgress, springScroll, springActive, heroScaleValue, heroOpacityValue>>
vars == <<mounted, listeners, mouseX, mouseY, hoverType, hoverBefore, crosshair, event,
          lastMove, lastOver,
          scrollYProgress, springScroll, springActive, heroScaleValue, heroOpacityValue,
          points, rotation, elapsed, cloudRenders>>
cloudVars == <<points, rotation, elapsed, cloudRenders>>

(***************************************************************************)
(* Bounds of the model.                                                    *)
(***************************************************************************)
MaxCoord == 1      \* clientX, clientY range over 0..MaxCoord
MaxTextLen == 12   \* innerText lengths range over 0..MaxTextLen
MaxSeed == 2       \* outcomes of the Math.random() draws range over 0..MaxSeed
MaxElapsed == 8    \* the clock of the scene runs up to MaxElapsed seconds
MaxRenders == 4    \* a mounted HoudiniCloud renders up to MaxRenders times

(***************************************************************************)
(* Program constants.                                                      *)
(***************************************************************************)
OffScreen == -100        \* useMotionValue(-100)
TextThreshold == 10      \* innerText.length > 10
LinkRotate == 45         \* rotate: hoverType === 'link' ? 45 : 0
ProgressDen == 20        \* fixed-point units per 1.0 of scroll progress
One == 60                \* fixed-point units per 1.0 of scale / opacity
PointCount == 2000       \* for (let i = 0; i < 2000; i++)
Stride == 3              \* new Float32Array(2000 * 3)

HoverTypes == {"none", "link", "text"}
EventTypes == {"mousemove", "mouseover"}

(***************************************************************************)
(* Pointer events and their targets.                                       *)
(***************************************************************************)
NoText == -1   \* innerText is undefined (e.g. an SVG element)
TagNames == {"A", "BUTTON", "P"}
Cursors == {"pointer", "auto"}
TextLengths == {NoText} \cup (0..MaxTextLen)
Targets == [tagName : TagNames, cursor : Cursors, innerText : TextLengths]
NoTarget == [tagName |-> "", cursor |-> "", innerText |-> NoText]
NoEvent == [type |-> "none", clientX |-> OffScreen, clientY |-> OffScreen, target |-> NoTarget]
MouseMove(x, y) == [type |-> "mousemove", clientX |-> x, clientY |-> y, target |-> NoTarget]
MouseOver(t) == [type |-> "mouseover", clientX |-> OffScreen, clientY |-> OffScreen, target |-> t]
Coords == 0..MaxCoord

(***************************************************************************)
(* BlueprintCursor: hover classification (handleOver, lines 35-45).        *)
(* innerText is modelled by its length; `target.innerText && ...` is false *)
(* for undefined (NoText) and for the empty string (length 0).             *)
(***************************************************************************)
Truthy(innerText) == innerText # NoText /\ innerText # 0

\* Faulty variants of HoverClassOf: the text check first; BUTTON forgotten; >= for >.
HoverClassOf_TextFirst(target) ==
    IF Truthy(target.innerText) /\ target.innerText > TextThreshold
    THEN "text"
    ELSE IF target.cursor = "pointer" \/ target.tagName = "A" \/ target.tagName = "BUTTON"
         THEN "link"
         ELSE "none"

HoverClassOf_NoButton(target) ==
    IF target.cursor = "pointer" \/ target.tagName = "A"
    THEN "link"
    ELSE IF Truthy(target.innerText) /\ target.innerText > TextThreshold
         THEN "text"
         ELSE "none"

HoverClassOf_AtLeast(target) ==
    IF target.cursor = "pointer" \/ target.tagName = "A" \/ target.tagName = "BUTTON"
    THEN "link"
    ELSE IF Truthy(target.innerText) /\ target.innerText >= TextThreshold
         THEN "text"
         ELSE "none"

HoverClassOf(target) ==
    IF target.cursor = "pointer" \/ target.tagName = "A" \/ target.tagName = "BUTTON"
    THEN "link"
    ELSE IF Truthy(target.innerText) /\ target.innerText > TextThreshold
         THEN "text"
         ELSE "none"

(***************************************************************************)
(* BlueprintCursor: what the component renders for a hoverType             *)
(* (animate target of the crosshair and the conditional label).            *)
(***************************************************************************)
\* Faulty variant of Render: the overlay reacts to any hover class but none.
Render_AnyHover(h) ==
    [scale  |-> IF h # "none" THEN (3 * One) \div 2 ELSE One,
     rotate |-> IF h # "none" THEN LinkRotate ELSE 0,
     label  |-> h = "link"]

Render(h) ==
    [scale  |-> IF h = "link" THEN (3 * One) \div 2 ELSE One,
     rotate |-> IF h = "link" THEN LinkRotate ELSE 0,
     label  |-> h = "link"]

(***************************************************************************)
(* The two handlers.  setHoverType re-renders the component, so the        *)
(* overlay is recomputed in the same step.                                 *)
(***************************************************************************)
\* Faulty variants of handleMove: throttled (only the first move is taken); the
\* handler also resets the hover class.
handleMove_Throttled(e) ==
    /\ mouseX' = IF mouseX = OffScreen THEN e.clientX ELSE mouseX
    /\ mouseY' = IF mouseY = OffScreen THEN e.clientY ELSE mouseY
    /\ UNCHANGED <<hoverType, crosshair>>

handleMove_ResetsHover(e) ==
    /\ mouseX' = e.clientX
    /\ mouseY' = e.clientY
    /\ hoverType' = "none"
    /\ crosshair' = <<Render(hoverType')>>

handleMove(e) ==
    /\ mouseX' = e.clientX
    /\ mouseY' = e.clientY
    /\ UNCHANGED <<hoverType, crosshair>>

\* Faulty variant of handleOver: a link classification sticks until a text target.
handleOver_Sticky(e) ==
    /\ hoverType' = IF hoverType = "link" /\ HoverClassOf(e.target) = "none"
                    THEN "link"
                    ELSE HoverClassOf(e.target)
    /\ crosshair' = <<Render(hoverType')>>
    /\ UNCHANGED <<mouseX, mouseY>>

handleOver(e) ==
    /\ hoverType' = HoverClassOf(e.target)
    /\ crosshair' = <<Render(hoverType')>>
    /\ UNCHANGED <<mouseX, mouseY>>

(***************************************************************************)
(* The effect of BlueprintCursor (deps []): setup on mount, cleanup on     *)
(* unmount.  Each run of the effect creates its own two closures, so a     *)
(* setup adds one listener per type and the cleanup removes that one.      *)
(***************************************************************************)
EffectSetup(l) ==
    [l EXCEPT !["mousemove"] = @ + 1, !["mouseover"] = @ + 1]

\* A re-render of BlueprintCursor: the dependency list [] never changes, so the
\* effect is not run again and the listeners stay as they are.
\* Faulty variant: the setup runs again on every render, without a cleanup.
EffectRerun_SetupAgain(l) == EffectSetup(l)

EffectRerun(l) == l

\* Faulty variant of EffectCleanup: the mouseover listener is not removed.
EffectCleanup_LeavesOver(l) ==
    [l EXCEPT !["mousemove"] = IF @ > 0 THEN @ - 1 ELSE 0]

EffectCleanup(l) ==
    [l EXCEPT !["mousemove"] = IF @ > 0 THEN @ - 1 ELSE 0,
              !["mouseover"] = IF @ > 0 THEN @ - 1 ELSE 0]

(***************************************************************************)
(* Scroll mapper: useTransform(value, [in0, in1], [out0, out1]) is the     *)
(* clamped linear interpolation of framer-motion: the input is clamped to  *)
(* the input range, progress = (v - in0) / (in1 - in0), and the result is  *)
(* out0 + (out1 - out0) * progress.                                        *)
(***************************************************************************)
Clamp(lo, hi, v) == IF v < lo THEN lo ELSE IF v > hi THEN hi ELSE v

Transform(v, in0, in1, out0, out1) ==
    out0 + ((out1 - out0) * (Clamp(in0, in1, v) - in0)) \div (in1 - in0)

ScaleIn1 == ProgressDen \div 5            \* 0.2
ScaleOut1 == (6 * One) \div 5             \* 1.2
OpacityIn1 == (3 * ProgressDen) \div 20   \* 0.15

\* Faulty variants: heroScale without the clamp; heroOpacity over heroScale's input range.
heroScale_NoClamp(p) == One + ((ScaleOut1 - One) * p) \div ScaleIn1

heroOpacity_ScaleRange(p) == Transform(p, 0, ScaleIn1, One, 0)

heroScale(p) == Transform(p, 0, ScaleIn1, One, ScaleOut1)
heroOpacity(p) == Transform(p, 0, OpacityIn1, One, 0)

Progress == 0..ProgressDen

(***************************************************************************)
(* HoudiniCloud (lines 95-110).  The content of the point array is random; *)
(* it is identified by the outcome (seed) of the Math.random() draws.      *)
(* Angles are in milliradians, the clock in whole seconds.  Sin is the     *)
(* sine of an angle in milliradians, in thousandths, by its Taylor series  *)
(* up to the 7th power (exact to a thousandth on the range of the clock).  *)
(***************************************************************************)
Seeds == 0..MaxSeed
NoRotation == [x |-> 0, y |-> 0]

GeneratePoints(seed) == [seed |-> seed, length |-> PointCount * Stride]

\* Faulty variant of useMemoPoints: the array is generated on every render.
useMemoPoints_EveryRender(cached, fresh) == fresh

\* useMemo(..., []): after the first render the cached array is returned.
useMemoPoints(cached, fresh) == cached

Sin(z) ==
    LET z2 == (z * z) \div 1000
        z3 == (z * z2) \div 1000
        z5 == (z3 * z2) \div 1000
        z7 == (z5 * z2) \div 1000
    IN  z - z3 \div 6 + z5 \div 120 - z7 \div 5040

useFrameRotation(t) ==
    [y |-> (t * 1000) \div 10,
     x |-> Sin((t * 1000 * 2) \div 10) \div 10]

(***************************************************************************)
(* Initial state: App mounted, effects run, nothing dispatched yet.        *)
(***************************************************************************)
Init ==
    /\ mounted = TRUE
    /\ listeners = EffectSetup([t \in EventTypes |-> 0])
    /\ mouseX = OffScreen
    /\ mouseY = OffScreen
    /\ hoverType = "none"
    /\ hoverBefore = "none"
    /\ crosshair = <<Render("none")>>
    /\ event = NoEvent
    /\ lastMove = NoEvent
    /\ lastOver = NoEvent
    /\ scrollYProgress = 0
    /\ springScroll = 0
    /\ springActive = FALSE
    /\ heroScaleValue = heroScale(0)
    /\ heroOpacityValue = heroOpacity(0)
    /\ points = <<>>
    /\ rotation = NoRotation
    /\ elapsed = 0
    /\ cloudRenders = 0

(***************************************************************************)
(* The window dispatches a mousemove: every registered mousemove listener  *)
(* runs handleMove; with none registered nothing runs.                     *)
(***************************************************************************)
DispatchMouseMove ==
    \E x \in Coords, y \in Coords :
        LET e == MouseMove(x, y) IN
        /\ event' = e
        /\ IF listeners["mousemove"] > 0
           THEN handleMove(e) /\ lastMove' = e
           ELSE UNCHANGED <<mouseX, mouseY, hoverType, crosshair, lastMove>>
        /\ UNCHANGED <<mounted, listeners, hoverBefore, lastOver>>
        /\ UNCHANGED <<scrollVars, cloudVars>>

(***************************************************************************)
(* The window dispatches a mouseover on target t.                          *)
(***************************************************************************)
MouseOverOn(t) ==
    LET e == MouseOver(t) IN
    /\ event' = e
    /\ hoverBefore' = hoverType
    /\ IF listeners["mouseover"] > 0
       THEN handleOver(e) /\ listeners' = EffectRerun(listeners) /\ lastOver' = e
       ELSE UNCHANGED <<mouseX, mouseY, hoverType, crosshair, listeners, lastOver>>
    /\ UNCHANGED <<mounted, lastMove>>
    /\ UNCHANGED <<scrollVars, cloudVars>>

DispatchMouseOver == \E t \in Targets : MouseOverOn(t)

(***************************************************************************)
(* Unmount: the effect's cleanup runs, the overlay leaves the page and the *)
(* spring animation is stopped.  The stale values of the motion values and *)
(* of hoverType stay as they were.                                         *)
(***************************************************************************)
Unmount ==
    /\ mounted
    /\ mounted' = FALSE
    /\ listeners' = EffectCleanup(listeners)
    /\ crosshair' = <<>>
    /\ event' = NoEvent
    /\ lastMove' = NoEvent
    /\ lastOver' = NoEvent
    /\ springActive' = FALSE
    /\ UNCHANGED <<mouseX, mouseY, hoverType, hoverBefore>>
    /\ UNCHANGED <<scrollYProgress, springScroll, heroScaleValue, heroOpacityValue>>
    /\ points' = <<>>
    /\ rotation' = NoRotation
    /\ elapsed' = 0
    /\ cloudRenders' = 0

(***************************************************************************)
(* Mount of a new instance: fresh hooks, effect setup.                     *)
(***************************************************************************)
\* Faulty variant of Mount: the motion values and the hover class live
\* outside the component and are carried over from the previous lifetime.
Mount_KeepsState ==
    /\ ~mounted
    /\ mounted' = TRUE
    /\ listeners' = EffectSetup(listeners)
    /\ crosshair' = <<Render(hoverType)>>
    /\ event' = NoEvent
    /\ lastMove' = NoEvent
    /\ lastOver' = NoEvent
    /\ scrollYProgress' = 0
    /\ springScroll' = 0
    /\ springActive' = FALSE
    /\ heroScaleValue' = heroScale(0)
    /\ heroOpacityValue' = heroOpacity(0)
    /\ UNCHANGED <<mouseX, mouseY, hoverType, hoverBefore>>
    /\ UNCHANGED cloudVars

Mount ==
    /\ ~mounted
    /\ mounted' = TRUE
    /\ listeners' = EffectSetup(listeners)
    /\ mouseX' = OffScreen
    /\ mouseY' = OffScreen
    /\ hoverType' = "none"
    /\ UNCHANGED hoverBefore
    /\ crosshair' = <<Render("none")>>
    /\ event' = NoEvent
    /\ lastMove' = NoEvent
    /\ lastOver' = NoEvent
    /\ scrollYProgress' = 0
    /\ springScroll' = 0
    /\ springActive' = FALSE
    /\ heroScaleValue' = heroScale(0)
    /\ heroOpacityValue' = heroOpacity(0)
    /\ UNCHANGED cloudVars

(***************************************************************************)
(* Scroll mapper.  A scroll of the page changes scrollYProgress, which     *)
(* (re)starts the spring towards it.  On each animation frame the spring   *)
(* takes a new value in [0, 1] (an overdamped spring between targets in    *)
(* [0, 1] stays in [0, 1], but after a retarget it may pass its target),   *)
(* or settles on the target; heroScale and heroOpacity are recomputed      *)
(* from the new smoothed value.                                            *)
(***************************************************************************)
ScrollStops == {0, OpacityIn1, ScaleIn1, ProgressDen \div 2, ProgressDen}

OnScroll ==
    \E p \in ScrollStops \ {scrollYProgress} :
        /\ mounted
        /\ scrollYProgress' = p
        /\ springActive' = TRUE
        /\ UNCHANGED <<springScroll, heroScaleValue, heroOpacityValue>>
        /\ UNCHANGED <<mounted>>
        /\ UNCHANGED <<pointerVars, cloudVars>>

\* Faulty variant of SpringTo: the derived values follow the raw progress.
SpringTo_FromRaw(v, settled) ==
    /\ springScroll' = v
    /\ springActive' = ~settled
    /\ heroScaleValue' = heroScale(scrollYProgress)
    /\ heroOpacityValue' = heroOpacity(scrollYProgress)

SpringTo(v, settled) ==
    /\ springScroll' = v
    /\ springActive' = ~settled
    /\ heroScaleValue' = heroScale(v)
    /\ heroOpacityValue' = heroOpacity(v)

SpringFrame ==
    /\ mounted
    /\ springActive
    /\ \/ \E v \in Progress \ {springScroll} : SpringTo(v, FALSE)
       \/ SpringTo(scrollYProgress, TRUE)
    /\ UNCHANGED <<mounted, scrollYProgress>>
    /\ UNCHANGED <<pointerVars, cloudVars>>

(***************************************************************************)
(* HoudiniCloud.  The Canvas mounts its children after the page; the first *)
(* render generates the points.  A later render (the App re-renders) goes  *)
(* through useMemo again.  On every animation frame the useFrame callback  *)
(* sets the rotation from the clock.                                       *)
(***************************************************************************)
CloudMount ==
    /\ mounted
    /\ points = <<>>
    /\ \E seed \in Seeds : points' = <<GeneratePoints(seed)>>
    /\ rotation' = NoRotation
    /\ elapsed' = 0
    /\ cloudRenders' = 1
    /\ UNCHANGED <<mounted, pointerVars, scrollVars>>

CloudRerender ==
    /\ points # <<>>
    /\ cloudRenders < MaxRenders
    /\ \E seed \in Seeds : points' = <<useMemoPoints(points[1], GeneratePoints(seed))>>
    /\ cloudRenders' = cloudRenders + 1
    /\ UNCHANGED <<rotation, elapsed>>
    /\ UNCHANGED <<mounted, pointerVars, scrollVars>>

CloudFrame ==
    /\ points # <<>>
    /\ elapsed < MaxElapsed
    /\ elapsed' = elapsed + 1
    /\ rotation' = useFrameRotation(elapsed')
    /\ UNCHANGED <<points, cloudRenders>>
    /\ UNCHANGED <<mounted, pointerVars, scrollVars>>

(***************************************************************************)
(* Specifications.                                                         *)
(*   SpecPointer: the pointer tracker alone.                               *)
(*   SpecScroll:  the scroll mapper alone.                                 *)
(*   SpecCloud:   the particle field alone.                                *)
(*   Spec:        the whole page; mouseover targets are drawn from         *)
(*                PageTargets, the targets at the ends of the text range.  *)
(***************************************************************************)
PageTargets == {t \in Targets : t.innerText \in {NoText, TextThreshold, MaxTextLen}}

PageMouseOver == \E t \in PageTargets : MouseOverOn(t)

NextPointer == DispatchMouseMove \/ DispatchMouseOver \/ Unmount \/ Mount

NextScroll == OnScroll \/ SpringFrame \/ Unmount \/ Mount

Next == DispatchMouseMove \/ PageMouseOver \/ OnScroll \/ SpringFrame \/ Unmount \/ Mount

SpecPointer == Init /\ [][NextPointer]_vars

SpecScroll == Init /\ [][NextScroll]_vars

NextCloud == CloudMount \/ CloudRerender \/ CloudFrame \/ Unmount \/ Mount

SpecCloud == Init /\ [][NextCloud]_vars

Spec == Init /\ [][Next]_vars

(***************************************************************************)
(* Properties.                                                             *)
(***************************************************************************)
IsLinkTarget(t) == t.tagName \in {"A", "BUTTON"} \/ t.cursor = "pointer"
OverHandled == mounted /\ event.type = "mouseover"
MoveHandled == mounted /\ event.type = "mousemove"

\* C1: after a mouseover handled while mounted on a target that is an anchor,
\* a button, or has computed cursor "pointer", hoverType is "link", for every
\* text length of the target and every earlier hoverType.
C1_LinkTakesPrecedence ==
    (OverHandled /\ IsLinkTarget(event.target)) => hoverType = "link"

\* a button with more than 10 characters of text, hovered while the class was
\* "text", is classified link
C1_Witness ==
    /\ OverHandled
    /\ event.target.tagName = "BUTTON"
    /\ event.target.cursor = "auto"
    /\ event.target.innerText = TextThreshold + 1
    /\ hoverBefore = "text"
    /\ hoverType = "link"

\* C2: after a mouseover handled while mounted on a target that is neither an
\* anchor nor a button and whose cursor is not "pointer", hoverType is "text"
\* exactly when the text is longer than 10 characters, and "none" otherwise
\* (also for the empty and for the absent text).
C2_TextOverTen ==
    (OverHandled /\ ~IsLinkTarget(event.target)) =>
        /\ hoverType \in {"text", "none"}
        /\ hoverType = "text" <=>
               (event.target.innerText # NoText /\ event.target.innerText > 10)

\* a paragraph of exactly 10 characters, hovered after a text target, gives none
C2_Witness ==
    /\ OverHandled
    /\ ~IsLinkTarget(event.target)
    /\ event.target.innerText = 10
    /\ hoverBefore = "text"
    /\ hoverType = "none"

\* C3: after a mousemove handled while mounted, (mouseX, mouseY) are the
\* coordinates of that event, whatever the position was before.
C3_PositionIsLastMove ==
    MoveHandled => (mouseX = event.clientX /\ mouseY = event.clientY)

\* a move to (MaxCoord, 0) has been handled
C3_Witness ==
    /\ MoveHandled
    /\ event.clientX = MaxCoord
    /\ event.clientY = 0
    /\ mouseX = MaxCoord
    /\ mouseY = 0

\* C4: while unmounted no mousemove and no mouseover listener is registered,
\* and no step taken while unmounted changes mouseX, mouseY or hoverType.
C4_UnmountSilences ==
    /\ [](~mounted => \A t \in EventTypes : listeners[t] = 0)
    /\ [][(~mounted /\ ~mounted') => UNCHANGED <<mouseX, mouseY, hoverType>>]_vars

\* a mouseover on a link target was dispatched after the unmount and the stale
\* hover class is still not link
C4_Witness ==
    /\ ~mounted
    /\ event.type = "mouseover"
    /\ IsLinkTarget(event.target)
    /\ hoverType = "text"

\* C5: heroScale is 1 + p for smoothed progress p in [0, 0.2] (so 1 at 0 and
\* 1.2 at 0.2) and 1.2 for every p above 0.2.
C5_HeroScale ==
    /\ springScroll = 0 => heroScaleValue = One
    /\ 5 * springScroll = ProgressDen => 5 * heroScaleValue = 6 * One
    /\ 5 * springScroll > ProgressDen => 5 * heroScaleValue = 6 * One
    /\ 5 * springScroll <= ProgressDen =>
           ProgressDen * (heroScaleValue - One) = One * springScroll

\* the smoothed progress has reached 1 and heroScale is 1.2
C5_Witness ==
    /\ mounted
    /\ springScroll = ProgressDen
    /\ 5 * heroScaleValue = 6 * One

\* C6: heroOpacity is 1 - p / 0.15 for smoothed progress p in [0, 0.15] (so 1
\* at 0 and 0 at 0.15) and 0 for every p above 0.15.
C6_HeroOpacity ==
    /\ springScroll = 0 => heroOpacityValue = One
    /\ 20 * springScroll = 3 * ProgressDen => heroOpacityValue = 0
    /\ 20 * springScroll > 3 * ProgressDen => heroOpacityValue = 0
    /\ 20 * springScroll <= 3 * ProgressDen =>
           3 * ProgressDen * (One - heroOpacityValue) = 20 * One * springScroll

\* the smoothed progress is 0.2, past the end of the opacity range
C6_Witness ==
    /\ mounted
    /\ 5 * springScroll = ProgressDen
    /\ heroOpacityValue = 0

\* C7: right after a mouseover that found hoverType none on a paragraph of 12
\* characters (not a link), hoverType is text; and if the next step is a
\* mouseover on a button, hoverType becomes link, whatever the button's text.
IsParagraph12(t) == t.tagName = "P" /\ t.cursor # "pointer" /\ t.innerText = 12

C7_ParagraphThenButton ==
    [][(/\ OverHandled
        /\ IsParagraph12(event.target)
        /\ hoverBefore = "none"
        /\ mounted'
        /\ event'.type = "mouseover"
        /\ event'.target.tagName = "BUTTON")
       => (hoverType = "text" /\ hoverBefore' = "text" /\ hoverType' = "link")]_vars

\* a button without text was hovered while the class was text
C7_Witness ==
    /\ OverHandled
    /\ event.target.tagName = "BUTTON"
    /\ event.target.cursor = "auto"
    /\ event.target.innerText = 0
    /\ hoverBefore = "text"
    /\ hoverType = "link"

MoveStep == event'.type = "mousemove" /\ event' # event
OverStep == event'.type = "mouseover" /\ <<event, hoverBefore>>' # <<event, hoverBefore>>
ScrollStep == mounted /\ mounted' /\ scrollVars' # scrollVars

C9_SingleWriter ==
    [][/\ MoveStep => UNCHANGED hoverType
       /\ OverStep => UNCHANGED <<mouseX, mouseY>>
       /\ ScrollStep => UNCHANGED <<mouseX, mouseY, hoverType>>
       /\ (mounted /\ mounted' /\ <<mouseX, mouseY>>' # <<mouseX, mouseY>>)
              => event'.type = "mousemove"
       /\ (mounted /\ mounted' /\ hoverType' # hoverType)
              => event'.type = "mouseover"]_vars

\* a move was handled while a link was hovered and the page was scrolled: the
\* hover class is still link
C9_Witness ==
    /\ MoveHandled
    /\ mouseX = event.clientX
    /\ hoverType = "link"
    /\ springScroll > 0

\* C10: hoverType is always one of none, link, text, and after a mouseover
\* handled while mounted it is the class of that event's target alone, the
\* same for every earlier hoverType.
C10_NoHistory ==
    /\ hoverType \in HoverTypes
    /\ OverHandled => hoverType = HoverClassOf(event.target)

\* a target of class none was hovered while the class was link
C10_Witness ==
    /\ OverHandled
    /\ hoverBefore = "link"
    /\ HoverClassOf(event.target) = "none"
    /\ hoverType = "none"

\* C11: while mounted exactly one mousemove and one mouseover listener are
\* registered, and none while unmounted, through every mount, re-render
\* (a handled mouseover) and unmount.
C11_TwoListenersWhileMounted ==
    \A t \in EventTypes : listeners[t] = IF mounted THEN 1 ELSE 0

\* a mouseover has changed hoverType, so the component has re-rendered, and
\* still one listener of each type is registered
C11_Witness ==
    /\ OverHandled
    /\ hoverBefore = "none"
    /\ hoverType = "link"
    /\ listeners["mousemove"] = 1
    /\ listeners["mouseover"] = 1

\* C12: handlers run one at a time, so in every interleaving of mousemoves
\* and mouseovers handled in a mounted lifetime the position is that of the
\* last mousemove (the initial one if there was none) and hoverType is the
\* class of the last mouseover's target (none if there was none), whatever
\* came between them.
ClassOfTarget(t) ==
    IF IsLinkTarget(t) THEN "link"
    ELSE IF t.innerText # NoText /\ t.innerText > 10 THEN "text"
    ELSE "none"

C12_LastMoveAndLastOver ==
    mounted =>
        /\ <<mouseX, mouseY>> = <<lastMove.clientX, lastMove.clientY>>
        /\ hoverType = IF lastOver = NoEvent THEN "none" ELSE ClassOfTarget(lastOver.target)

\* a mousemove was handled after a mouseover on a text target: the position
\* is the move's and the class is still the one of the earlier mouseover
C12_Witness ==
    /\ MoveHandled
    /\ lastOver # NoEvent
    /\ ClassOfTarget(lastOver.target) = "text"
    /\ hoverType = "text"
    /\ lastMove = event
    /\ <<mouseX, mouseY>> = <<MaxCoord, MaxCoord>>

\* C13: a mounted particle field has one array of 2000 * 3 = 6000
\* coordinates; no frame and no re-render replaces or resizes it (it stays
\* the array of the first render), and a frame changes the rotation only.
C13_PointsGeneratedOnce ==
    /\ [](points # <<>> => (Len(points) = 1 /\ points[1].length = 6000))
    /\ [][(points # <<>> /\ points' # <<>>) => points' = points]_vars
    /\ [][(points # <<>> /\ elapsed' # elapsed /\ points' # <<>>)
             => UNCHANGED <<points, cloudRenders>>]_vars

\* the field has rendered three times and run two frames; the rotation is
\* that of t = 2 s (y = 0.2 rad) and the array has its 6000 coordinates
C13_Witness ==
    /\ points # <<>>
    /\ points[1].seed = MaxSeed
    /\ points[1].length = 6000
    /\ cloudRenders = 3
    /\ elapsed = 2
    /\ rotation.y = 200

\* C14: in a mounted lifetime, the first one or a later one, as long as no
\* pointer event has been dispatched the position is (-100, -100) and
\* hoverType is none, whatever the previous lifetime left behind.
C14_FreshStateAtMount ==
    (mounted /\ event = NoEvent) =>
        (mouseX = -100 /\ mouseY = -100 /\ hoverType = "none")

\* a remount: an earlier lifetime had reached the class link (a mouseover was
\* dispatched while it was link), and the new one starts off-screen with none
C14_Witness ==
    /\ mounted
    /\ event = NoEvent
    /\ hoverBefore = "link"
    /\ mouseX = -100
    /\ mouseY = -100
    /\ hoverType = "none"

\* C15: heroScale is in [1, 1.2] and heroOpacity in [0, 1]; both are
\* determined by the smoothed progress alone (not by the raw progress):
\* against every smoothed progress q of the grid, heroScale is at least the
\* scale of every q below the current one and at most that of every q above
\* (so it never decreases with the progress), heroOpacity the other way
\* round; and when heroScale is 1.2, heroOpacity is 0.
C15_DerivedValues ==
    /\ One <= heroScaleValue /\ 5 * heroScaleValue <= 6 * One
    /\ 0 <= heroOpacityValue /\ heroOpacityValue <= One
    /\ \A q \in Progress :
          /\ q <= springScroll =>
                 (heroScale(q) <= heroScaleValue /\ heroOpacity(q) >= heroOpacityValue)
          /\ q >= springScroll =>
                 (heroScale(q) >= heroScaleValue /\ heroOpacity(q) <= heroOpacityValue)
    /\ 5 * heroScaleValue = 6 * One => heroOpacityValue = 0

\* the page is scrolled to the end while the spring is still at 0.05:
\* heroScale is 1.05 and heroOpacity 2/3, the values of the smoothed progress
C15_Witness ==
    /\ mounted
    /\ scrollYProgress = ProgressDen
    /\ 20 * springScroll = ProgressDen
    /\ 20 * heroScaleValue = 21 * One
    /\ 3 * heroOpacityValue = 2 * One

====
